---- MODULE Spec2Model ----
(***************************************************************************)
(* A model of src/script.js: the COVID-19 dashboard made of a zoomable     *)
(* map of US states, a confirmed-cases bar chart, a deaths bar chart and a *)
(* per-state details chart.                                                *)
(*                                                                         *)
(* The state is the part of the DOM the handlers of script.js read and     *)
(* write: the CSS classes the hover handlers toggle, the fill style and    *)
(* the newest fill transition of every state path, the zoom transform of   *)
(* the svg and the transform copied to the map group, the transitions      *)
(* scheduled on the svg, the gestures of the zoom behaviour attached to    *)
(* the svg (its Gesture objects, the mouse button and the fingers that are *)
(* down, its timers), the #stateDetailsChart elements and the error        *)
(* console.                                                                *)
(*                                                                         *)
(* Numbers are exact rationals <<n, d>> (d > 0, lowest terms), so that     *)
(* 0.8, 0.9 and the computed zoom scales are represented without rounding. *)
(* A transition draws frames between its start and its last frame, which   *)
(* d3 pins to the target exactly.  The fill of a frame in between is       *)
(* "tween" (an inline colour other than red) or, where the interpolated    *)
(* colour rounds to it, "red".  The transform of a frame in between comes  *)
(* from d3.interpolateZoom, whose values are irrational in general: the    *)
(* model keeps such a transform as a term, [from, to, about], that names   *)
(* the path the frame lies on, and the transforms gestures make of it as   *)
(* terms as well ([scaled, by, at, holding], [translated, at, holding] and *)
(* [pinched, at, holding]).                                                *)
(***************************************************************************)
EXTENDS Integers, Sequences, FiniteSets, TLC

VARIABLES
    pc,                 \* progress of window.onload
    us,                 \* the loaded geometry: a sequence of features
    data,               \* the loaded records: a sequence of records
    views,              \* the views constructed so far, in order
    stateHighlight,     \* map path has class "state-highlight", by name
    mapHighlight,       \* map path has class "highlight", by name
    confirmedHighlight, \* #confirmedChart bar has class "highlight", by state
    deathHighlight,     \* #deathChart bar has class "highlight", by state
    fillStyle,          \* style "fill" of every map path, by name
    fillTransition,     \* newest transition scheduled on every map path
    zoomTransform,      \* svg.node().__zoom
    gAttr,              \* attributes zoomed() wrote on the map group
    svgTransition,      \* newest transition scheduled on the svg
    gestures,           \* the Gesture objects of the zoom behaviour, by name
    zooming,            \* svg.node().__zooming: the name of a gesture, or 0
    pressed,            \* the gesture of the mouse button held down
    noclick,            \* the click after a drag is being suppressed
    touches,            \* the fingers on the svg: event.touches
    touchstarting,      \* the zoom behaviour's timer of a first tap runs
    touchfirst,         \* where the first tap was
    touchending,        \* the zoom behaviour's timer after a touchend runs
    detail,             \* the #stateDetailsChart elements of the body
    errors,             \* console.error lines so far
    lastEvent,          \* the last user event a handler ran for (history)
    seen                \* clicks, frames and gesture events so far

vars == <<pc, us, data, views, stateHighlight, mapHighlight,
          confirmedHighlight, deathHighlight, fillStyle, fillTransition,
          zoomTransform, gAttr, svgTransition, gestures, zooming, pressed,
          noclick, touches, touchstarting, touchfirst, touchending, detail,
          errors, lastEvent, seen>>

hoverVars == <<stateHighlight, mapHighlight, confirmedHighlight, deathHighlight>>
fillVars == <<fillStyle, fillTransition>>
behaviourVars == <<zoomTransform, gAttr, svgTransition, gestures, zooming, pressed>>
touchVars == <<touches, touchstarting, touchfirst, touchending>>
mapVars == <<fillVars, behaviourVars, noclick, touchVars>>
detailVars == <<detail, errors>>
loadVars == <<pc, us, data, views>>

----------------------------------------------------------------------------
(* Bounds of the model. *)

\* Events a run of the model goes through that schedule or draw a zoom:
\* clicks, frames in between of zoom transitions, and the events of zoom
\* gestures that begin a gesture or zoom (wheel, mousedown, mousemove,
\* dblclick, touchstart, touchmove, the end of a double tap).
MaxSeen == 3

\* Divisions per axis of the grid the bounding boxes of BoundsSpec come from.
BoxGrid == 10

----------------------------------------------------------------------------
(* Program constants. *)

width == 960

height == 600

ScaleExtentMin == 1

ScaleExtentMax == 8

----------------------------------------------------------------------------
(* Exact rational arithmetic. *)

Abs(n) == IF n < 0 THEN -n ELSE n

\* the greatest common divisor, by Euclid's algorithm
Euclid[a \in Nat, b \in Nat] == IF b = 0 THEN a ELSE Euclid[b, a % b]

GCD(a, b) == Euclid[a, b]

\* n / d in lowest terms.  The operations are functions, of the values of
\* their operands.
Rat[n \in Int, d \in Int] ==
    LET g == GCD(Abs(n), Abs(d))
        s == IF d < 0 THEN -1 ELSE 1
    IN  <<(s * n) \div g, (s * d) \div g>>

Int2Rat(n) == <<n, 1>>

RatAdd[a \in Int \X Int, b \in Int \X Int] ==
    LET g == GCD(a[2], b[2])
    IN  Rat[a[1] * (b[2] \div g) + b[1] * (a[2] \div g), (a[2] \div g) * b[2]]

RatNeg[a \in Int \X Int] == <<-a[1], a[2]>>

RatSub(a, b) == RatAdd[a, RatNeg[b]]

RatMul[a \in Int \X Int, b \in Int \X Int] ==
    LET g == GCD(Abs(a[1]), b[2])
        h == GCD(Abs(b[1]), a[2])
    IN  Rat[(a[1] \div g) * (b[1] \div h), (a[2] \div h) * (b[2] \div g)]

RatDiv[a \in Int \X Int, b \in Int \X Int] ==
    RatMul[a, IF b[1] < 0 THEN <<-b[2], -b[1]>> ELSE <<b[2], b[1]>>]

RatLeq[a \in Int \X Int, b \in Int \X Int] ==
    LET g == GCD(a[2], b[2])
    IN  a[1] * (b[2] \div g) <= b[1] * (a[2] \div g)

RatLt[a \in Int \X Int, b \in Int \X Int] ==
    LET g == GCD(a[2], b[2])
    IN  a[1] * (b[2] \div g) < b[1] * (a[2] \div g)

RatMin[a \in Int \X Int, b \in Int \X Int] == IF RatLeq[a, b] THEN a ELSE b

RatMax[a \in Int \X Int, b \in Int \X Int] == IF RatLeq[a, b] THEN b ELSE a

\* the largest i in lo..hi with i * i <= n
RECURSIVE RootBetween(_, _, _)
RootBetween(n, lo, hi) ==
    IF lo = hi THEN lo
    ELSE LET mid == (lo + hi + 1) \div 2
         IN  IF mid * mid <= n THEN RootBetween(n, mid, hi)
             ELSE RootBetween(n, lo, mid - 1)

\* the largest i with i * i <= n, for n below 2^30
Root(n) == RootBetween(n, 0, 32767)

\* a is the square of a rational
IsSquare(a) ==
    /\ a[1] >= 0
    /\ Root(a[1]) * Root(a[1]) = a[1]
    /\ Root(a[2]) * Root(a[2]) = a[2]

\* Math.sqrt(a), for a the square of a rational
RatSqrt(a) == <<Root(a[1]), Root(a[2])>>

----------------------------------------------------------------------------
(* d3.zoomIdentity and the Transform methods script.js calls. *)

zoomIdentity == [k |-> Int2Rat(1), x |-> Int2Rat(0), y |-> Int2Rat(0)]

\* transform.translate(x, y)
Translate(t, x, y) ==
    [k |-> t.k, x |-> RatAdd[t.x, RatMul[t.k, x]], y |-> RatAdd[t.y, RatMul[t.k, y]]]

\* transform.scale(k)
Scale(t, k) == [k |-> RatMul[t.k, k], x |-> t.x, y |-> t.y]

\* transform.apply(point)
Apply(t, p) == <<RatAdd[RatMul[p[1], t.k], t.x], RatAdd[RatMul[p[2], t.k], t.y]>>

\* transform.invert(point)
Invert(t, p) == <<RatDiv[RatSub(p[1], t.x), t.k], RatDiv[RatSub(p[2], t.y), t.k]>>

----------------------------------------------------------------------------
(* Transforms and points the model keeps as terms. *)

\* t is given by its three numbers
Exact(t) == DOMAIN t = {"k", "x", "y"}

\* a point given by its two coordinates
Point(p) == [at |-> p]

ExactPoint(q) == DOMAIN q = {"at"}

\* transform.invert(p), a term when t is one
InvertPoint(t, p) ==
    IF Exact(t) THEN Point(Invert(t, p)) ELSE [inverted |-> t, at |-> p]

\* the transform of a frame in between of a zoom transition from a to b
\* about p: a transform on the path of d3.interpolateZoom from the view
\* (a.invert(p), width / a.k) to the view (b.invert(p), width / b.k), shown
\* with the point of the view at p.  From a to a the path is a alone.
Frame(a, b, p) == IF a = b THEN a ELSE [from |-> a, to |-> b, about |-> p]

\* translate(t, p0, p1) of the zoom behaviour: t moved so that it shows the
\* point p1 of the map at p0
TranslateTo(t, p0, p1) ==
    IF Exact(t) /\ ExactPoint(p1)
    THEN [k |-> t.k,
          x |-> RatSub(p0[1], RatMul[p1.at[1], t.k]),
          y |-> RatSub(p0[2], RatMul[p1.at[2], t.k])]
    ELSE [translated |-> t, at |-> p0, holding |-> p1]

----------------------------------------------------------------------------
(* The two data sets of the modelled run. *)

\* feature(us, us.objects.states).features, with path.bounds of each feature
Atlas ==
    << [name |-> "California", bounds |-> << <<-450, -100>>, <<450, 100>> >>],
       [name |-> "Texas",      bounds |-> << <<-160, 60>>,   <<128, 330>> >>],
       [name |-> "Nevada",     bounds |-> << <<-420, -180>>, <<-330, -126>> >>] >>

\* the rows loadData returns
Rows ==
    << [state |-> "California", confirmed |-> 100, deaths |-> 10,
        recovered |-> 80, active |-> 10],
       [state |-> "Texas", confirmed |-> 50, deaths |-> 5,
        recovered |-> 40, active |-> 5],
       [state |-> "Diamond Princess", confirmed |-> 49, deaths |-> 0,
        recovered |-> 0, active |-> 49] >>

Range(s) == {s[i] : i \in 1..Len(s)}

FeatureNames(geo) == {f.name : f \in Range(geo)}

RowStates(rows) == {d.state : d \in Range(rows)}

\* data.find(state => state.state === name): the index of the first match, or 0
RECURSIVE FindFrom(_, _, _)
FindFrom(rows, name, i) ==
    IF i > Len(rows) THEN 0
    ELSE IF rows[i].state = name THEN i
    ELSE FindFrom(rows, name, i + 1)

DataFind(rows, name) == FindFrom(rows, name, 1)

\* path.bounds(d) of the feature called name
PathBounds(geo, name) == (CHOOSE f \in Range(geo) : f.name = name).bounds

----------------------------------------------------------------------------
(* window.onload *)

\* the transform script.js sets at the end of createMap
InitialTransform ==
    Scale(Translate(zoomIdentity, Rat[width, 2], Rat[height, 2]), Rat[8, 10])

\* the "stroke-width" zoomed() writes: 1 / transform.k
StrokeWidth(t) ==
    IF Exact(t) THEN [px |-> RatDiv[Int2Rat(1), t.k]] ELSE [overScaleOf |-> t]

\* zoomed(event): the attributes written on the map group
zoomed(t) == [transform |-> t, strokeWidth |-> StrokeWidth(t)]

Origin == <<Int2Rat(0), Int2Rat(0)>>

NoPoint == Point(Origin)

\* no transition is scheduled on the svg
NoTransition ==
    [phase |-> "idle", target |-> zoomIdentity, point |-> NoPoint,
     from |-> zoomIdentity, queue |-> <<>>, g |-> 0]

\* no transition is scheduled on a path
NoFill == [phase |-> "idle", target |-> "null", starts |-> {}]

\* the names the Gesture objects of a run go by
GestureNames == 1..(MaxSeen + 4)

\* gesture.mouse is not set
NoMouse == [on |-> FALSE, p0 |-> Origin, p1 |-> NoPoint]

\* gesture.touch0, or gesture.touch1, is not set
NoTouch == [on |-> FALSE, p0 |-> Origin, p1 |-> NoPoint, identifier |-> 0]

\* new Gesture(that, args)
NewGesture ==
    [active |-> 0, mouse |-> NoMouse, wheel |-> FALSE, touch0 |-> NoTouch,
     touch1 |-> NoTouch, taps |-> 0, moved |-> FALSE]

\* the mouse button is up
NoPress == [g |-> 0, x0y0 |-> Origin]

NoEvent == [type |-> "none", name |-> ""]

Event(type, name) == [type |-> type, name |-> name]

Init ==
    /\ pc = "loadGeo"
    /\ us = <<>>
    /\ data = <<>>
    /\ views = <<>>
    /\ stateHighlight = [n \in {} |-> FALSE]
    /\ mapHighlight = [n \in {} |-> FALSE]
    /\ confirmedHighlight = [n \in {} |-> FALSE]
    /\ deathHighlight = [n \in {} |-> FALSE]
    /\ fillStyle = [n \in {} |-> "none"]
    /\ fillTransition = [n \in {} |-> NoFill]
    /\ zoomTransform = zoomIdentity
    /\ gAttr = zoomed(zoomIdentity)
    /\ svgTransition = NoTransition
    /\ gestures = [i \in GestureNames |-> NewGesture]
    /\ zooming = 0
    /\ pressed = NoPress
    /\ noclick = FALSE
    /\ touches = <<>>
    /\ touchstarting = FALSE
    /\ touchfirst = Origin
    /\ touchending = FALSE
    /\ detail = <<>>
    /\ errors = 0
    /\ lastEvent = NoEvent
    /\ seen = 0

\* await d3.json(...) resolves
GeoLoaded ==
    /\ pc = "loadGeo"
    /\ pc' = "loadData"
    /\ us' = Atlas
    /\ UNCHANGED <<data, views, hoverVars, mapVars, detailVars, lastEvent, seen>>

\* faulty variant: a rejected geometry load is swallowed and onload goes on
GeoFailed_Ignored ==
    /\ pc = "loadGeo"
    /\ pc' = "loadData"
    /\ UNCHANGED <<us, data, views, hoverVars, mapVars, detailVars, lastEvent, seen>>

\* await d3.json(...) rejects: onload ends there
GeoFailed ==
    /\ pc = "loadGeo"
    /\ pc' = "failed"
    /\ UNCHANGED <<us, data, views, hoverVars, mapVars, detailVars, lastEvent, seen>>

\* await loadData(...) resolves
loadData ==
    /\ pc = "loadData"
    /\ pc' = "render"
    /\ data' = Rows
    /\ UNCHANGED <<us, views, hoverVars, mapVars, detailVars, lastEvent, seen>>

\* await loadData(...) rejects: onload ends there
DataFailed ==
    /\ pc = "loadData"
    /\ pc' = "failed"
    /\ UNCHANGED <<us, data, views, hoverVars, mapVars, detailVars, lastEvent, seen>>

\* createMap(us, data): the state paths and the initial transform
createMap(geo) ==
    /\ stateHighlight' = [n \in FeatureNames(geo) |-> FALSE]
    /\ mapHighlight' = [n \in FeatureNames(geo) |-> FALSE]
    /\ fillStyle' = [n \in FeatureNames(geo) |-> "none"]
    /\ fillTransition' = [n \in FeatureNames(geo) |-> NoFill]
    /\ zoomTransform' = InitialTransform
    /\ gAttr' = zoomed(InitialTransform)
    /\ svgTransition' = NoTransition
    /\ gestures' = [i \in GestureNames |-> NewGesture]
    /\ zooming' = 0
    /\ pressed' = NoPress
    /\ UNCHANGED <<noclick, touchVars>>

\* createConfirmedChart(data): one bar per row
createConfirmedChart(rows) ==
    confirmedHighlight' = [n \in RowStates(rows) |-> FALSE]

\* createDeathChart(data): one bar per row
createDeathChart(rows) ==
    deathHighlight' = [n \in RowStates(rows) |-> FALSE]

\* the order in which onload constructs the views
ViewOrder == <<"map", "confirmed", "death">>

\* the rest of onload, run once both awaits have resolved
Render ==
    /\ pc = "render"
    /\ pc' = "ready"
    /\ createMap(us)
    /\ createConfirmedChart(data)
    /\ createDeathChart(data)
    /\ views' = ViewOrder
    /\ UNCHANGED <<us, data, detailVars, lastEvent, seen>>

----------------------------------------------------------------------------
(* Hover handlers. *)

\* the listeners createMap and the two chart constructors attach are there
Listening == pc = "ready"

\* selection.filter(pred).classed(name, value) on a map of names to flags
Classed(flags, name, value) ==
    [n \in DOMAIN flags |-> IF n = name THEN value ELSE flags[n]]

\* the class the map's own handlers toggle on the hovered path
MapOwnClass(value, name) ==
    /\ stateHighlight' = Classed(stateHighlight, name, value)
    /\ UNCHANGED mapHighlight

\* faulty variant: the chart handlers leave the map alone
MapClassFromChart_Skipped(value, name) ==
    UNCHANGED <<mapHighlight, stateHighlight>>

\* the class the chart handlers toggle on the matching map path
MapClassFromChart(value, name) ==
    /\ mapHighlight' = Classed(mapHighlight, name, value)
    /\ UNCHANGED stateHighlight

\* mouseover(event, d) of a state path
mouseover(name) ==
    /\ Listening
    /\ name \in FeatureNames(us)
    /\ MapOwnClass(TRUE, name)
    /\ confirmedHighlight' = Classed(confirmedHighlight, name, TRUE)
    /\ deathHighlight' = Classed(deathHighlight, name, TRUE)
    /\ lastEvent' = Event("map mouseover", name)
    /\ UNCHANGED <<loadVars, mapVars, detailVars, seen>>

\* mouseout(event, d) of a state path
mouseout(name) ==
    /\ Listening
    /\ name \in FeatureNames(us)
    /\ MapOwnClass(FALSE, name)
    /\ confirmedHighlight' = Classed(confirmedHighlight, name, FALSE)
    /\ deathHighlight' = Classed(deathHighlight, name, FALSE)
    /\ lastEvent' = Event("map mouseout", name)
    /\ UNCHANGED <<loadVars, mapVars, detailVars, seen>>

\* the mouseover handler of a #confirmedChart bar
ConfirmedMouseover(state) ==
    /\ Listening
    /\ state \in RowStates(data)
    /\ confirmedHighlight' = Classed(confirmedHighlight, state, TRUE)
    /\ deathHighlight' = Classed(deathHighlight, state, TRUE)
    /\ MapClassFromChart(TRUE, state)
    /\ lastEvent' = Event("confirmed mouseover", state)
    /\ UNCHANGED <<loadVars, mapVars, detailVars, seen>>

\* the mouseout handler of a #confirmedChart bar
ConfirmedMouseout(state) ==
    /\ Listening
    /\ state \in RowStates(data)
    /\ confirmedHighlight' = Classed(confirmedHighlight, state, FALSE)
    /\ deathHighlight' = Classed(deathHighlight, state, FALSE)
    /\ MapClassFromChart(FALSE, state)
    /\ lastEvent' = Event("confirmed mouseout", state)
    /\ UNCHANGED <<loadVars, mapVars, detailVars, seen>>

\* the mouseover handler of a #deathChart bar
DeathMouseover(state) ==
    /\ Listening
    /\ state \in RowStates(data)
    /\ deathHighlight' = Classed(deathHighlight, state, TRUE)
    /\ confirmedHighlight' = Classed(confirmedHighlight, state, TRUE)
    /\ MapClassFromChart(TRUE, state)
    /\ lastEvent' = Event("death mouseover", state)
    /\ UNCHANGED <<loadVars, mapVars, detailVars, seen>>

\* the mouseout handler of a #deathChart bar
DeathMouseout(state) ==
    /\ Listening
    /\ state \in RowStates(data)
    /\ deathHighlight' = Classed(deathHighlight, state, FALSE)
    /\ confirmedHighlight' = Classed(confirmedHighlight, state, FALSE)
    /\ MapClassFromChart(FALSE, state)
    /\ lastEvent' = Event("death mouseout", state)
    /\ UNCHANGED <<loadVars, mapVars, detailVars, seen>>

----------------------------------------------------------------------------
(* Fill transitions of the state paths. *)

\* the value a finished fill transition leaves in the style
FillValue(target) == IF target = "red" THEN "red" ELSE "none"

\* the fills a frame in between of the transition tr can leave on a path
\* whose fill was value when the frame before was drawn, or when tr
\* started.  A transition to null removes the inline fill when it starts
\* and draws nothing on a path that had none, or one of the default colour.
\* An interpolated colour next to red reads as red.
FillFrames(value, tr) ==
    IF tr.target = "red"
    THEN (IF value = "red" THEN {"red"} ELSE {"tween", "red"})
    ELSE IF value = "none" THEN {"none"}
    ELSE IF value = "red" THEN {"red", "tween"}
    ELSE IF tr.phase = "scheduled" THEN {"tween", "none"}
    ELSE {"tween"}

\* the fills the path can have when the next frame of tr is drawn: the fill
\* it has, or, before tr has started, what the transitions tr pre-empts
\* make of it
FillStarts(value, tr) == IF tr.phase = "scheduled" THEN tr.starts ELSE {value}

\* the fills the path can have when a transition scheduled now starts: the
\* transitions before it start first, in the order of scheduling; one that
\* runs draws another frame, one that has not started draws its first, and
\* either may be at its end by then
FillLeft(value, tr) ==
    IF tr.phase = "idle" THEN {value}
    ELSE UNION {FillFrames(s, tr) : s \in FillStarts(value, tr)}
             \cup {FillValue(tr.target)}

\* selection.transition().style("fill", value) on every path in names: the
\* newest transition of a path pre-empts the older ones when it starts
ScheduleFill(ft, names, value) ==
    [n \in DOMAIN ft |->
        IF n \in names
        THEN [phase |-> "scheduled", target |-> value,
              starts |-> FillLeft(fillStyle[n], ft[n])]
        ELSE ft[n]]

\* the newest fill transition of a path starts, if it has not, and draws a
\* frame in between that leaves the fill colour
FillFrame(name, colour) ==
    /\ Listening
    /\ name \in DOMAIN fillTransition
    /\ fillTransition[name].phase # "idle"
    /\ colour \in UNION {FillFrames(s, fillTransition[name]) :
                            s \in FillStarts(fillStyle[name], fillTransition[name])}
    /\ fillStyle' = [fillStyle EXCEPT ![name] = colour]
    /\ fillTransition' =
           [fillTransition EXCEPT
               ![name] = [@ EXCEPT !.phase = "running", !.starts = {}]]
    /\ UNCHANGED <<loadVars, hoverVars, behaviourVars, noclick, touchVars,
                   detailVars, lastEvent, seen>>

\* the newest fill transition of a path draws its last frame
FillEnd(name) ==
    /\ Listening
    /\ name \in DOMAIN fillTransition
    /\ fillTransition[name].phase # "idle"
    /\ fillTransition' = [fillTransition EXCEPT ![name] = NoFill]
    /\ fillStyle' = [fillStyle EXCEPT ![name] = FillValue(fillTransition[name].target)]
    /\ UNCHANGED <<loadVars, hoverVars, behaviourVars, noclick, touchVars,
                   detailVars, lastEvent, seen>>

----------------------------------------------------------------------------
(* Click handlers of the map, on the record m of what they write:          *)
(* [fillTransition, svgTransition, detail, errors].                        *)

\* svg.transition().duration(750).call(zoom.transform, target, point), old
\* the newest transition of the svg so far: the new one waits for old and
\* for what old waits for.  One that has not started starts before the new
\* one does; one that runs, in the gesture g from the transform from, goes on
\* until then.
ScheduleZoom(old, target, point) ==
    [phase |-> "scheduled", target |-> target, point |-> point,
     from |-> zoomIdentity,
     queue |-> IF old.phase = "idle" THEN <<>>
               ELSE Append(old.queue,
                           [target |-> old.target, point |-> old.point,
                            from |-> old.from, g |-> old.g]),
     g |-> 0]

\* [width / 2, height / 2]
ViewCentre == <<Rat[width, 2], Rat[height, 2]>>

\* d3.zoomTransform(svg.node()).invert([width / 2, height / 2])
ResetPoint == InvertPoint(zoomTransform, ViewCentre)

\* faulty variant: the scale is not capped at 8
ClickScale_Uncapped(box) ==
    LET m == RatMax[Rat[box[2][1] - box[1][1], width],
                    Rat[box[2][2] - box[1][2], height]]
    IN  IF m[1] = 0 THEN Int2Rat(8) ELSE RatDiv[Rat[9, 10], m]

\* Math.min(8, 0.9 / Math.max((x1 - x0) / width, (y1 - y0) / height))
ClickScale(box) ==
    LET m == RatMax[Rat[box[2][1] - box[1][1], width],
                    Rat[box[2][2] - box[1][2], height]]
    IN  IF m[1] = 0 THEN Int2Rat(8)
        ELSE RatMin[Int2Rat(8), RatDiv[Rat[9, 10], m]]

\* the transform clicked() asks the zoom behaviour for
ClickTransform(box) ==
    Translate(
        Scale(Translate(zoomIdentity, Rat[width, 2], Rat[height, 2]), ClickScale(box)),
        Rat[-(box[1][1] + box[2][1]), 2],
        Rat[-(box[1][2] + box[2][2]), 2])

\* faulty variant: the old details chart is not removed
RemoveFirst_KeepsChart(charts) == charts

\* d3.select("#stateDetailsChart").remove(): removes the first match
RemoveFirst(charts) == IF charts = <<>> THEN <<>> ELSE Tail(charts)

\* the four bars of the details chart
stateDetailsData(row) ==
    << <<"Confirmed", row.confirmed>>, <<"Deaths", row.deaths>>,
       <<"Recovered", row.recovered>>, <<"Active cases", row.active>> >>

\* d3.select("body").append("svg"): a node other than the ones in charts
\* and than the one just removed (two node names are enough to tell them apart)
NewNode(charts) == IF charts # <<>> /\ Head(charts).node = 0 THEN 1 ELSE 0

\* console.error(...): one more line
LogError(n) == n + 1

\* updateStateBarChart(stateData)
updateStateBarChart(m, row) ==
    [m EXCEPT
        !.detail = Append(RemoveFirst(m.detail),
                          [node |-> NewNode(m.detail), state |-> row.state,
                           bars |-> stateDetailsData(row)])]

\* faulty variant: reset also removes the details chart
reset_RemovingDetail(m) ==
    [m EXCEPT
        !.fillTransition = ScheduleFill(m.fillTransition, DOMAIN m.fillTransition, "null"),
        !.svgTransition = ScheduleZoom(m.svgTransition, zoomIdentity, ResetPoint),
        !.detail = <<>>]

\* faulty variant: reset zooms back to the transform of startup
reset_ToInitialTransform(m) ==
    [m EXCEPT
        !.fillTransition = ScheduleFill(m.fillTransition, DOMAIN m.fillTransition, "null"),
        !.svgTransition = ScheduleZoom(m.svgTransition, InitialTransform, ResetPoint)]

\* reset()
reset(m) ==
    [m EXCEPT
        !.fillTransition = ScheduleFill(m.fillTransition, DOMAIN m.fillTransition, "null"),
        !.svgTransition = ScheduleZoom(m.svgTransition, zoomIdentity, ResetPoint)]

\* faulty variant: a click that finds no row removes the details chart and logs nothing
clicked_ClearingOnMiss(m, geo, rows, name, p) ==
    LET i  == DataFind(rows, name)
        m1 == [m EXCEPT
                 !.fillTransition =
                     ScheduleFill(
                         ScheduleFill(m.fillTransition, DOMAIN m.fillTransition, "null"),
                         {name}, "red"),
                 !.svgTransition =
                     ScheduleZoom(m.svgTransition,
                                  ClickTransform(PathBounds(geo, name)), Point(p))]
    IN  IF i # 0
        THEN updateStateBarChart(m1, rows[i])
        ELSE [m1 EXCEPT !.detail = RemoveFirst(m.detail)]

\* clicked(event, d), d the feature called name and p d3.pointer(event)
clicked(m, geo, rows, name, p) ==
    LET i  == DataFind(rows, name)
        m1 == [m EXCEPT
                 !.fillTransition =
                     ScheduleFill(
                         ScheduleFill(m.fillTransition, DOMAIN m.fillTransition, "null"),
                         {name}, "red"),
                 !.svgTransition =
                     ScheduleZoom(m.svgTransition,
                                  ClickTransform(PathBounds(geo, name)), Point(p))]
    IN  IF i # 0
        THEN updateStateBarChart(m1, rows[i])
        ELSE [m1 EXCEPT !.errors = LogError(m.errors)]

\* faulty variant: clicked does not stop the event
StopsPropagation_Missing == FALSE

\* event.stopPropagation() in clicked
StopsPropagation == TRUE

Current ==
    [fillTransition |-> fillTransition, svgTransition |-> svgTransition,
     detail |-> detail, errors |-> errors]

Becomes(m) ==
    /\ fillTransition' = m.fillTransition
    /\ svgTransition' = m.svgTransition
    /\ detail' = m.detail
    /\ errors' = m.errors

\* a click event at point p on the state path called name reaches the
\* listeners of script.js (the zoom behaviour swallows the click that ends
\* a drag): clicked, then the svg's click listener unless clicked stopped
\* the event
RegionClick(name, p) ==
    /\ Listening
    /\ name \in FeatureNames(us)
    /\ ~noclick
    /\ seen < MaxSeen
    /\ seen' = seen + 1
    /\ lastEvent' = Event("region click", name)
    /\ LET m1 == clicked(Current, us, data, name, p)
       IN  Becomes(IF StopsPropagation THEN m1 ELSE reset(m1))
    /\ UNCHANGED <<loadVars, hoverVars, fillStyle, zoomTransform, gAttr,
                   gestures, zooming, pressed, noclick, touchVars>>

\* a click event on the svg outside every state path reaches the listener
\* of script.js
BackgroundClick ==
    /\ Listening
    /\ ~noclick
    /\ seen < MaxSeen
    /\ seen' = seen + 1
    /\ lastEvent' = Event("background click", "")
    /\ Becomes(reset(Current))
    /\ UNCHANGED <<loadVars, hoverVars, fillStyle, zoomTransform, gAttr,
                   gestures, zooming, pressed, noclick, touchVars>>

----------------------------------------------------------------------------
(* The zoom behaviour svg.call(zoom) attaches to the svg, on the record b  *)
(* of what it reads and writes: [transform, attr, gestures, zooming,       *)
(* pressed, transition].                                                   *)

Behaviour ==
    [transform |-> zoomTransform, attr |-> gAttr, gestures |-> gestures,
     zooming |-> zooming, pressed |-> pressed, transition |-> svgTransition]

\* the gestures something refers to: the svg, the listeners of the button
\* held down, the tween of the svg's transition, a wheel timer
Referenced(b) ==
    {b.zooming, b.pressed.g, b.transition.g}
        \cup {b.transition.queue[i].g : i \in DOMAIN b.transition.queue}
        \cup {i \in GestureNames : b.gestures[i].wheel}

\* b is what the handler leaves; a gesture nothing refers to is gone
Shows(b) ==
    \E shown \in {b} :
        /\ zoomTransform' = shown.transform
        /\ gAttr' = shown.attr
        /\ gestures' = [i \in GestureNames |->
                           IF i \in Referenced(shown) THEN shown.gestures[i]
                           ELSE NewGesture]
        /\ zooming' = shown.zooming
        /\ pressed' = shown.pressed
        /\ svgTransition' = shown.transition

\* the first name that is not taken
FirstFree[taken \in SUBSET (0..(MaxSeen + 4))] ==
    CHOOSE i \in GestureNames :
        i \notin taken /\ \A j \in 1..(i - 1) : j \in taken

\* what Then makes of the value of v
Given(v, Then(_)) == CHOOSE r \in {Then(x) : x \in {v}} : TRUE

\* gesture(that, args, clean): the gesture registered on the svg, or a new
\* one under the first name free
gesture(b, clean) ==
    IF ~clean /\ b.zooming # 0 THEN b.zooming
    ELSE FirstFree[Referenced(b) \cup
                   {i \in GestureNames : b.gestures[i] # NewGesture}]

\* gesture.start(): the first start registers the gesture on the svg
start(b, g) ==
    LET a == b.gestures[g].active + 1
    IN  [b EXCEPT !.gestures[g].active = a,
                  !.zooming = IF a = 1 THEN g ELSE @]

\* gesture.end(): the end that matches the first start clears svg.__zooming
end(b, g) ==
    LET a == b.gestures[g].active - 1
    IN  [b EXCEPT !.gestures[g].active = a,
                  !.zooming = IF a = 0 THEN 0 ELSE @]

\* gesture(this, arguments).end(): ends the gesture registered on the svg;
\* without one, a new gesture that nothing else refers to
endCurrent(b) == IF b.zooming = 0 THEN b ELSE end(b, b.zooming)

\* what gesture.zoom(key, t) makes of the pointer m the gesture keeps for
\* the input mine: [pointer, point of the map kept under it]
Kept(m, key, mine, t) ==
    IF m.on /\ key # mine THEN [m EXCEPT !.p1 = InvertPoint(t, m.p0)] ELSE m

\* gesture.zoom(key, t): the points kept for the other inputs follow, the
\* svg gets the transform t and zoomed() runs
GestureZoom(b, g, key, t) ==
    [b EXCEPT !.gestures[g].mouse = Kept(@, key, "mouse", t),
              !.gestures[g].touch0 = Kept(@, key, "touch", t),
              !.gestures[g].touch1 = Kept(@, key, "touch", t),
              !.transform = t,
              !.attr = zoomed(t)]

\* one of the transitions of the svg has started and has not ended
Running(tr) ==
    \/ tr.phase = "running"
    \/ tr.queue # <<>> /\ Head(tr.queue).g # 0

\* interrupt(this): the transitions of the svg are gone; one that runs
\* tells its interrupt listener, which ends the gesture
interrupt(b) ==
    IF Running(b.transition)
    THEN endCurrent([b EXCEPT !.transition = NoTransition])
    ELSE [b EXCEPT !.transition = NoTransition]

----------------------------------------------------------------------------
(* Zoom transitions: the frames d3 draws for what reset, clicked and a     *)
(* double click schedule on the svg.                                       *)

\* what a frame of the transition o draws: its target when the frame is the
\* last, else a transform in between
Draws(from, o, last) ==
    IF last THEN o.target ELSE Frame(from, o.target, o.point)

\* a transition o that something newer waits for: one that runs draws
\* another frame; one that has not started starts, which starts a gesture,
\* and draws its first.  With that frame it ends when it is the last one,
\* else the newer transition interrupts it; both end the gesture.
Passes(b, o, last) ==
    IF o.g # 0
    THEN endCurrent(GestureZoom(b, o.g, "", Draws(o.from, o, last)))
    ELSE Given(gesture(b, FALSE), LAMBDA g :
         Given(start(b, g), LAMBDA b1 :
             endCurrent(GestureZoom(b1, g, "", Draws(b1.transform, o, last)))))

\* the transitions of queue pass in the order of scheduling; the frame is
\* the last one for the oldest ended of them
RECURSIVE StartTransform(_, _, _)
StartTransform(b, queue, ended) ==
    IF queue = <<>> THEN b
    ELSE Given(Passes(b, Head(queue), ended > 0), LAMBDA b1 :
             StartTransform(b1, Tail(queue),
                            IF ended > 0 THEN ended - 1 ELSE 0))

\* the newest transition of the svg has started: after the ones it waited
\* for, it starts a gesture and keeps the transform it starts from
Started(b, ended) ==
    IF b.transition.phase # "scheduled" THEN b
    ELSE Given(StartTransform(b, b.transition.queue, ended), LAMBDA b1 :
         Given(gesture(b1, FALSE), LAMBDA g :
         Given(start(b1, g), LAMBDA b2 :
             [b2 EXCEPT !.transition =
                 [@ EXCEPT !.phase = "running", !.from = b2.transform,
                           !.queue = <<>>, !.g = g]])))

\* the svg's newest zoom transition starts, if it has not, and draws a
\* frame in between: zoomed() runs on a transform of the path from the
\* transform the transition started from to its target.  The frame in
\* which it starts is late enough for the oldest ended of the transitions
\* it waited for to end.
ZoomFrame ==
    /\ Listening
    /\ svgTransition.phase # "idle"
    /\ seen < MaxSeen
    /\ seen' = seen + 1
    /\ \E ended \in 0..Len(svgTransition.queue) :
       \E b \in {Started(Behaviour, ended)} :
         LET tr == b.transition
             b1 == GestureZoom(b, tr.g, "", Frame(tr.from, tr.target, tr.point))
         IN  /\ b1 # Behaviour
             /\ Shows(b1)
    /\ UNCHANGED <<loadVars, hoverVars, fillVars, noclick, touchVars,
                   detailVars, lastEvent>>

\* the svg's newest zoom transition draws its last frame, the target
\* exactly, and tells its end listener, which ends the gesture; the last
\* frame writes over what the transitions before it drew
ZoomEnd ==
    /\ Listening
    /\ svgTransition.phase # "idle"
    /\ \E b \in {Started(Behaviour, Len(svgTransition.queue))} :
         LET b1 == GestureZoom(b, b.transition.g, "", b.transition.target)
         IN  Shows(endCurrent([b1 EXCEPT !.transition = NoTransition]))
    /\ UNCHANGED <<loadVars, hoverVars, fillVars, noclick, touchVars,
                   detailVars, lastEvent, seen>>

----------------------------------------------------------------------------
(* Zoom gestures: the listeners of the zoom behaviour. *)

\* faulty variant: no scale extent
ClampScale_None(k) == k

\* .scaleExtent([1, 8]) applied to a scale a gesture asks for
ClampScale(k) ==
    RatMax[Int2Rat(ScaleExtentMin), RatMin[Int2Rat(ScaleExtentMax), k]]

\* the scale of t is at most ScaleMax(t): the scale of a frame in between
\* is never above the scales of both ends of its path, and a pinch asks
\* for a scale the model does not know
RECURSIVE ScaleMax(_)
ScaleMax(t) ==
    IF Exact(t) THEN t.k
    ELSE IF "from" \in DOMAIN t THEN RatMax[ScaleMax(t.from), ScaleMax(t.to)]
    ELSE IF "translated" \in DOMAIN t THEN ScaleMax(t.translated)
    ELSE IF "scaled" \in DOMAIN t THEN ClampScale(RatMul[ScaleMax(t.scaled), t.by])
    ELSE ClampScale(RatAdd[ScaleMax(t.pinched), Int2Rat(ScaleExtentMax)])

\* the scale of t is at least ScaleMin(t), and above it when that is 0
RECURSIVE ScaleMin(_)
ScaleMin(t) ==
    IF Exact(t) THEN t.k
    ELSE IF "from" \in DOMAIN t THEN Int2Rat(0)
    ELSE IF "translated" \in DOMAIN t THEN ScaleMin(t.translated)
    ELSE IF "scaled" \in DOMAIN t THEN ClampScale(RatMul[ScaleMin(t.scaled), t.by])
    ELSE ClampScale(Int2Rat(0))

\* where the pointer is when a click or a mouse gesture happens
Pointers == {ViewCentre, <<Int2Rat(100), Int2Rat(50)>>}

\* translate(scale(t, k), p0, p1) for k the scale of t times f within the
\* extent: the transform of that scale that shows the point p1 of the map
\* at p0
ScaleAbout(t, f, p0, p1) ==
    IF Exact(t) /\ ExactPoint(p1)
    THEN LET k == ClampScale(RatMul[t.k, f])
         IN  [k |-> k,
              x |-> RatSub(p0[1], RatMul[p1.at[1], k]),
              y |-> RatSub(p0[2], RatMul[p1.at[2], k])]
    ELSE [scaled |-> t, by |-> f, at |-> p0, holding |-> p1]

\* t.k !== k in wheeled, as far as the model knows the scale of t
ScaleChanges(t, f) ==
    \/ ScaleMin(t) # ScaleMax(t)
    \/ ClampScale(RatMul[ScaleMax(t), f]) # ScaleMax(t)

\* 2 ^ (-deltaY * 0.002) for a deltaY of -500 and of 500
WheelFactors == {Rat[2, 1], Rat[1, 2]}

\* [p, t.invert(p)]: the pointer at p and the point of the map under it
PointerAt(t, p) == [on |-> TRUE, p0 |-> p, p1 |-> InvertPoint(t, p)]

\* wheeled: a wheel event at p.  While the wheel timer of the gesture
\* registered on the svg runs (within 150 ms of the wheel event before),
\* it zooms about the point kept, or about the point under the pointer
\* when the pointer has moved.  Otherwise it returns at once when the
\* extent leaves the scale as it is, and else keeps the point under the
\* pointer, interrupts the svg's transitions and starts the gesture.
Wheel(f, p) ==
    /\ Listening
    /\ seen < MaxSeen
    /\ seen' = seen + 1
    /\ lastEvent' = Event("zoom gesture", "")
    /\ LET b  == Behaviour
           g  == gesture(b, FALSE)
           t  == b.transform
           b1 == IF b.gestures[g].wheel
                 THEN IF b.gestures[g].mouse.p0 = p THEN b
                      ELSE [b EXCEPT !.gestures[g].mouse = PointerAt(t, p)]
                 ELSE start(interrupt([b EXCEPT !.gestures[g].mouse = PointerAt(t, p)]), g)
           m  == b1.gestures[g].mouse
       IN  /\ b.gestures[g].wheel \/ ScaleChanges(t, f)
           /\ Shows(GestureZoom([b1 EXCEPT !.gestures[g].wheel = TRUE], g, "mouse",
                                ScaleAbout(t, f, m.p0, m.p1)))
    /\ UNCHANGED <<loadVars, hoverVars, fillVars, noclick, touchVars, detailVars>>

\* wheelidled: 150 ms have passed since the last wheel event of gesture g
WheelIdle(g) ==
    /\ Listening
    /\ gestures[g].wheel
    /\ Shows(end([Behaviour EXCEPT !.gestures[g].wheel = FALSE], g))
    /\ UNCHANGED <<loadVars, hoverVars, fillVars, noclick, touchVars,
                   detailVars, lastEvent, seen>>

\* mousedowned: the main button goes down at p, not within 500 ms of a
\* touchend.  A gesture of its own keeps the point under the pointer,
\* interrupts the svg's transitions and starts.
MouseDown(p) ==
    /\ Listening
    /\ pressed.g = 0
    /\ ~touchending
    /\ seen < MaxSeen
    /\ seen' = seen + 1
    /\ lastEvent' = Event("zoom gesture", "")
    /\ LET b == Behaviour
           g == gesture(b, TRUE)
       IN  Shows(start(interrupt([b EXCEPT !.gestures[g].mouse = PointerAt(b.transform, p),
                                           !.pressed = [g |-> g, x0y0 |-> p]]), g))
    /\ UNCHANGED <<loadVars, hoverVars, fillVars, noclick, touchVars, detailVars>>

\* mousemoved: the pointer moves to p with the button down.  The map
\* follows at the scale it has; the svg's transitions go on.
MouseMove(p) ==
    /\ Listening
    /\ pressed.g # 0
    /\ gestures[pressed.g].mouse.p0 # p
    /\ seen < MaxSeen
    /\ seen' = seen + 1
    /\ lastEvent' = Event("zoom gesture", "")
    /\ LET b == Behaviour
           g == pressed.g
           m == b.gestures[g]
       IN  Shows(GestureZoom([b EXCEPT !.gestures[g].moved = @ \/ p # pressed.x0y0,
                                       !.gestures[g].mouse.p0 = p],
                             g, "mouse", TranslateTo(b.transform, p, m.mouse.p1)))
    /\ UNCHANGED <<loadVars, hoverVars, fillVars, noclick, touchVars, detailVars>>

\* mouseupped: the button goes up.  The gesture ends, and after a move the
\* click that follows is kept from every listener.
MouseUp ==
    /\ Listening
    /\ pressed.g # 0
    /\ lastEvent' = Event("zoom gesture", "")
    /\ noclick' = (noclick \/ gestures[pressed.g].moved)
    /\ Shows(end([Behaviour EXCEPT !.pressed = NoPress], pressed.g))
    /\ UNCHANGED <<loadVars, hoverVars, fillVars, touchVars, detailVars, seen>>

\* the timer of 0 ms set at the mouseup after a drag: clicks count again
ClickAgain ==
    /\ Listening
    /\ noclick
    /\ noclick' = FALSE
    /\ UNCHANGED <<loadVars, hoverVars, fillVars, behaviourVars, touchVars,
                   detailVars, lastEvent, seen>>

\* event.shiftKey ? 0.5 : 2
DblClickFactor(shiftKey) == IF shiftKey THEN Rat[1, 2] ELSE Rat[2, 1]

\* dblclicked at p on the transform t: the transition of 250 ms it
\* schedules on the svg, old the newest one so far
dblclicked(old, t, p, shiftKey) ==
    ScheduleZoom(old,
                 ScaleAbout(t, DblClickFactor(shiftKey), p, InvertPoint(t, p)),
                 Point(p))

\* the dblclick event at p the svg receives after the two clicks of a
\* double click
DblClick(p, shiftKey) ==
    /\ Listening
    /\ seen < MaxSeen
    /\ seen' = seen + 1
    /\ lastEvent' = Event("zoom gesture", "")
    /\ svgTransition' = dblclicked(svgTransition, zoomTransform, p, shiftKey)
    /\ UNCHANGED <<loadVars, hoverVars, fillVars, zoomTransform, gAttr, gestures,
                   zooming, pressed, noclick, touchVars, detailVars>>

\* the fingers of the model
Fingers == {1, 2}

\* where a finger can be
TouchPoints ==
    {<<Int2Rat(400), Int2Rat(300)>>, <<Int2Rat(560), Int2Rat(300)>>,
     <<Int2Rat(640), Int2Rat(300)>>}

\* the touches of identifier finger in ts
TouchesOf(ts, finger) == {i \in 1..Len(ts) : ts[i].identifier = finger}

\* [p, this.__zoom.invert(p), t.identifier] for the touch u
TouchAt(t, u) ==
    [on |-> TRUE, p0 |-> u.at, p1 |-> InvertPoint(t, u.at), identifier |-> u.identifier]

\* the loop of touchstarted over event.touches: the first touch the
\* gesture does not know becomes touch0, counted as a tap, the second one
\* touch1.  acc is [g, started], starting tells that a first tap's timer runs
RECURSIVE Placed(_, _, _, _)
Placed(acc, ts, t, starting) ==
    IF ts = <<>> THEN acc
    ELSE LET u == Head(ts)
         IN  Placed(
                 IF ~acc.g.touch0.on
                 THEN [g |-> [acc.g EXCEPT !.touch0 = TouchAt(t, u),
                                           !.taps = IF starting THEN 2 ELSE 1],
                       started |-> TRUE]
                 ELSE IF ~acc.g.touch1.on /\ acc.g.touch0.identifier # u.identifier
                 THEN [g |-> [acc.g EXCEPT !.touch1 = TouchAt(t, u), !.taps = 0],
                       started |-> acc.started]
                 ELSE acc,
                 Tail(ts), t, starting)

\* touchstarted: a finger comes down at p.  The first finger starts a
\* gesture of its own; a gesture that gets its touch0 interrupts the svg's
\* transitions and starts, and a first tap starts the timer of 500 ms that
\* makes the next one a second tap.
TouchStart(finger, p) ==
    /\ Listening
    /\ \A i \in 1..Len(touches) : touches[i].identifier # finger /\ touches[i].at # p
    /\ seen < MaxSeen
    /\ seen' = seen + 1
    /\ lastEvent' = Event("zoom gesture", "")
    /\ LET ts     == Append(touches, [identifier |-> finger, at |-> p])
           b      == Behaviour
           g      == gesture(b, Len(ts) = 1)
           placed == Placed([g |-> b.gestures[g], started |-> FALSE], ts,
                            b.transform, touchstarting)
           first  == placed.started /\ placed.g.taps < 2
           b1     == [b EXCEPT !.gestures[g] = placed.g]
       IN  /\ touches' = ts
           /\ touchstarting' = first
           /\ touchfirst' = IF first THEN p ELSE touchfirst
           /\ Shows(IF placed.started THEN start(interrupt(b1), g) ELSE b1)
    /\ UNCHANGED <<loadVars, hoverVars, fillVars, noclick, touchending, detailVars>>

\* the middle of two points
Middle(p, q) ==
    <<RatDiv[RatAdd[p[1], q[1]], Int2Rat(2)], RatDiv[RatAdd[p[2], q[2]], Int2Rat(2)]>>

\* the square of the distance of two points
Distance2(p, q) ==
    RatAdd[RatMul[RatSub(q[1], p[1]), RatSub(q[1], p[1])],
           RatMul[RatSub(q[2], p[2]), RatSub(q[2], p[2])]]

\* translate(scale(t, Math.sqrt(dp / dl)), p, l) of touchmoved for two
\* fingers: the scale, within the extent, that puts the two points kept as
\* far apart as the fingers are, their middle at the middle of the fingers
PinchTo(t, touch0, touch1) ==
    IF /\ Exact(t) /\ ExactPoint(touch0.p1) /\ ExactPoint(touch1.p1)
       /\ touch0.p1 # touch1.p1
       /\ IsSquare(RatDiv[Distance2(touch0.p0, touch1.p0),
                          Distance2(touch0.p1.at, touch1.p1.at)])
    THEN LET k == ClampScale(RatSqrt(RatDiv[Distance2(touch0.p0, touch1.p0),
                                            Distance2(touch0.p1.at, touch1.p1.at)]))
             p == Middle(touch0.p0, touch1.p0)
             l == Middle(touch0.p1.at, touch1.p1.at)
         IN  [k |-> k,
              x |-> RatSub(p[1], RatMul[l[1], k]),
              y |-> RatSub(p[2], RatMul[l[2], k])]
    ELSE [pinched |-> t, at |-> <<touch0.p0, touch1.p0>>,
          holding |-> <<touch0.p1, touch1.p1>>]

\* the touch of a gesture follows its finger to p
MovedTo(touch, finger, p) ==
    IF touch.on /\ touch.identifier = finger THEN [touch EXCEPT !.p0 = p] ELSE touch

\* touchmoved: a finger moves to p.  Nothing happens without a gesture
\* registered on the svg; with one, two fingers scale the map within the
\* extent and one finger moves it; the svg's transitions go on.
TouchMove(finger, p) ==
    /\ Listening
    /\ TouchesOf(touches, finger) # {}
    /\ \A i \in 1..Len(touches) : touches[i].at # p
    /\ seen < MaxSeen
    /\ seen' = seen + 1
    /\ lastEvent' = Event("zoom gesture", "")
    /\ touches' = [i \in 1..Len(touches) |->
                      IF touches[i].identifier = finger
                      THEN [touches[i] EXCEPT !.at = p] ELSE touches[i]]
    /\ IF zooming = 0 THEN UNCHANGED behaviourVars
       ELSE LET g  == zooming
                t0 == MovedTo(gestures[g].touch0, finger, p)
                t1 == MovedTo(gestures[g].touch1, finger, p)
                b  == [Behaviour EXCEPT !.gestures[g].touch0 = t0,
                                        !.gestures[g].touch1 = t1]
            IN  IF t1.on
                THEN Shows(GestureZoom(b, g, "touch", PinchTo(b.transform, t0, t1)))
                ELSE IF t0.on
                THEN Shows(GestureZoom(b, g, "touch",
                                       TranslateTo(b.transform, t0.p0, t0.p1)))
                ELSE Shows(b)
    /\ UNCHANGED <<loadVars, hoverVars, fillVars, noclick, touchstarting,
                   touchfirst, touchending, detailVars>>

\* Math.hypot(p[0] - q[0], p[1] - q[1]) < tapDistance, which is 10
Near(p, q) == RatLt[Distance2(p, q), Int2Rat(10 * 10)]

\* touchended: a finger goes up.  Nothing happens without a gesture
\* registered on the svg; with one, the timer of 500 ms that keeps
\* mousedown events out starts, the gesture forgets the finger and, when
\* it has none left, ends; the end of a second tap near the first is a
\* double click.
TouchEnd(finger) ==
    /\ Listening
    /\ TouchesOf(touches, finger) # {}
    /\ lastEvent' = Event("zoom gesture", "")
    /\ touches' = SelectSeq(touches, LAMBDA u : u.identifier # finger)
    /\ IF zooming = 0 THEN UNCHANGED <<behaviourVars, touchending, seen>>
       ELSE LET g   == zooming
                at  == touches[CHOOSE i \in TouchesOf(touches, finger) : TRUE].at
                t0  == gestures[g].touch0
                t1  == gestures[g].touch1
                d0  == IF t0.on /\ t0.identifier = finger THEN NoTouch ELSE t0
                d1  == IF d0 = t0 /\ t1.on /\ t1.identifier = finger THEN NoTouch ELSE t1
                s0  == IF d1.on /\ ~d0.on THEN d1 ELSE d0
                s1  == IF d1.on /\ ~d0.on THEN NoTouch ELSE d1
                tap == ~s0.on /\ gestures[g].taps = 2 /\ Near(touchfirst, at)
                b   == [Behaviour EXCEPT
                          !.gestures[g].touch0 =
                              IF s0.on THEN [s0 EXCEPT !.p1 = InvertPoint(zoomTransform, s0.p0)]
                              ELSE s0,
                          !.gestures[g].touch1 = s1]
                b1  == IF s0.on THEN b ELSE end(b, g)
            IN  /\ tap => seen < MaxSeen
                /\ seen' = IF tap THEN seen + 1 ELSE seen
                /\ touchending' = TRUE
                /\ Shows(IF tap
                         THEN [b1 EXCEPT !.transition =
                                  dblclicked(@, b1.transform, at, FALSE)]
                         ELSE b1)
    /\ UNCHANGED <<loadVars, hoverVars, fillVars, noclick, touchstarting,
                   touchfirst, detailVars>>

\* the timer of a first tap runs out: 500 ms have passed since it
TouchStartingOver ==
    /\ Listening
    /\ touchstarting
    /\ touchstarting' = FALSE
    /\ UNCHANGED <<loadVars, hoverVars, fillVars, behaviourVars, noclick, touches,
                   touchfirst, touchending, detailVars, lastEvent, seen>>

\* the timer of a touchend runs out: 500 ms have passed since it
TouchEndingOver ==
    /\ Listening
    /\ touchending
    /\ touchending' = FALSE
    /\ UNCHANGED <<loadVars, hoverVars, fillVars, behaviourVars, noclick, touches,
                   touchstarting, touchfirst, detailVars, lastEvent, seen>>

----------------------------------------------------------------------------
(* Specifications. *)

AllNames == FeatureNames(Atlas) \cup RowStates(Rows)

Startup == GeoLoaded \/ GeoFailed \/ loadData \/ DataFailed \/ Render

\* the hover events on the regions of names
HoverOn(names) ==
    \E n \in names :
        \/ mouseover(n)
        \/ mouseout(n)
        \/ ConfirmedMouseover(n)
        \/ ConfirmedMouseout(n)
        \/ DeathMouseover(n)
        \/ DeathMouseout(n)

Hover == HoverOn(AllNames)

HoverNext == Startup \/ Hover

HoverSpec == Init /\ [][HoverNext]_vars

\* the click events on the background and on the regions of names, with the
\* pointer at a point of ps
ClickOn(names, ps) ==
    BackgroundClick \/ \E n \in names : \E p \in ps : RegionClick(n, p)

Click == ClickOn(AllNames, Pointers)

FillColours == {"none", "tween", "red"}

FillAnimate ==
    \E n \in AllNames : FillEnd(n) \/ \E colour \in FillColours : FillFrame(n, colour)

ZoomAnimate == ZoomEnd \/ ZoomFrame

Animate == FillAnimate \/ ZoomAnimate

\* the events of the wheel, and its timer
WheelGesture == \E p \in Pointers : \E f \in WheelFactors : Wheel(f, p)

WheelTimer == \E g \in GestureNames : WheelIdle(g)

\* the events of the mouse button, and the timer of the click after a drag
MouseGesture ==
    \/ MouseUp
    \/ ClickAgain
    \/ \E p \in Pointers : MouseDown(p) \/ MouseMove(p)

DblClicks == \E p \in Pointers : \E shiftKey \in BOOLEAN : DblClick(p, shiftKey)

\* the events of the fingers, and the timers of the taps
TouchGesture ==
    \/ TouchStartingOver
    \/ TouchEndingOver
    \/ \E finger \in Fingers :
          \/ TouchEnd(finger)
          \/ \E p \in TouchPoints : TouchStart(finger, p) \/ TouchMove(finger, p)

Gesture == WheelGesture \/ WheelTimer \/ MouseGesture \/ DblClicks \/ TouchGesture

\* the dashboard: the load, then every event and every timer
Next == Startup \/ Hover \/ Click \/ Animate \/ Gesture

Spec == Init /\ [][Next]_vars

\* where the pointer goes when the mouse drags
Corner == <<Int2Rat(100), Int2Rat(50)>>

\* where the first finger comes down, where the second one does, and where
\* a finger moves to
TouchFirst == <<Int2Rat(400), Int2Rat(300)>>

TouchSecond == <<Int2Rat(560), Int2Rat(300)>>

TouchThird == <<Int2Rat(640), Int2Rat(300)>>

\* one event of every listener of the zoom behaviour, and its timers: a
\* wheel event, a drag of the mouse, a double click, a finger that moves
\* the map
GestureEach ==
    \/ Wheel(Rat[2, 1], ViewCentre)
    \/ WheelTimer
    \/ MouseDown(ViewCentre)
    \/ MouseMove(Corner)
    \/ MouseUp
    \/ ClickAgain
    \/ DblClick(ViewCentre, FALSE)
    \/ TouchStart(1, TouchFirst)
    \/ TouchMove(1, TouchThird)
    \/ TouchEnd(1)
    \/ TouchStartingOver
    \/ TouchEndingOver

\* selecting: clicks and the frames of the fill transitions they schedule
SelectNext == Startup \/ Click \/ FillAnimate

SelectSpec == Init /\ [][SelectNext]_vars

\* zooming: every click, the frames of the zoom transitions and every
\* event of a zoom gesture
ZoomNext == Startup \/ Click \/ ZoomAnimate \/ Gesture

ZoomSpec == Init /\ [][ZoomNext]_vars

\* the details chart: hovers on Texas, every click, the zoom transitions
\* and zoom gestures
DetailNext == Startup \/ HoverOn({"Texas"}) \/ Click \/ ZoomAnimate \/ GestureEach

DetailSpec == Init /\ [][DetailNext]_vars

\* resetting: clicks on Texas, on Nevada and on the background, every frame
\* of the transitions they schedule, and zoom gestures
ResetNext ==
    Startup \/ ClickOn({"Texas", "Nevada"}, {ViewCentre}) \/ Animate \/ GestureEach

\* the corners of the bounding boxes BoundsSpec clicks on
GridX == {(width * i) \div BoxGrid : i \in 0..BoxGrid}

GridY == {(height * i) \div BoxGrid : i \in 0..BoxGrid}

Boxes ==
    {<< <<x0, y0>>, <<x1, y1>> >> :
        <<x0, y0, x1, y1>> \in
            {q \in GridX \X GridY \X GridX \X GridY : q[1] < q[3] /\ q[2] < q[4]}}

\* the dashboard as onload leaves it, for a geometry of one feature whose
\* bounding box is any box of the grid
BoundsInit ==
    \E box \in Boxes :
        /\ us = << [name |-> "California", bounds |-> box] >>
        /\ data = Rows
        /\ pc = "ready"
        /\ views = ViewOrder
        /\ stateHighlight = [n \in FeatureNames(us) |-> FALSE]
        /\ mapHighlight = [n \in FeatureNames(us) |-> FALSE]
        /\ confirmedHighlight = [n \in RowStates(data) |-> FALSE]
        /\ deathHighlight = [n \in RowStates(data) |-> FALSE]
        /\ fillStyle = [n \in FeatureNames(us) |-> "none"]
        /\ fillTransition = [n \in FeatureNames(us) |-> NoFill]
        /\ zoomTransform = InitialTransform
        /\ gAttr = zoomed(InitialTransform)
        /\ svgTransition = NoTransition
        /\ gestures = [i \in GestureNames |-> NewGesture]
        /\ zooming = 0
        /\ pressed = NoPress
        /\ noclick = FALSE
        /\ touches = <<>>
        /\ touchstarting = FALSE
        /\ touchfirst = Origin
        /\ touchending = FALSE
        /\ detail = <<>>
        /\ errors = 0
        /\ lastEvent = NoEvent
        /\ seen = 0

\* clicks on the region
BoundsNext == \E n \in AllNames : \E p \in Pointers : RegionClick(n, p)

\* clicked() on every bounding box of the grid
BoundsSpec == BoundsInit /\ [][BoundsNext]_vars

\* the load and the hover handlers, with the continuation of onload always run
FairHoverSpec == HoverSpec /\ WF_vars(Render)

\* the map, with onload's continuation and d3's transition timers always run
FairResetSpec ==
    /\ Init /\ [][ResetNext]_vars
    /\ WF_vars(Render)
    /\ WF_vars(ZoomEnd)
    /\ \A n \in AllNames : WF_vars(FillEnd(n))

----------------------------------------------------------------------------
(* What the three linked views show. *)

\* the map path called n carries one of the two highlight classes
MapHighlighted(n) ==
    n \in DOMAIN stateHighlight /\ (stateHighlight[n] \/ mapHighlight[n])

\* the #confirmedChart bar of n carries the highlight class
ConfirmedHighlighted(n) == n \in DOMAIN confirmedHighlight /\ confirmedHighlight[n]

\* the #deathChart bar of n carries the highlight class
DeathHighlighted(n) == n \in DOMAIN deathHighlight /\ deathHighlight[n]

HighlightedSomewhere(n) ==
    MapHighlighted(n) \/ ConfirmedHighlighted(n) \/ DeathHighlighted(n)

HighlightedEverywhere(n) ==
    MapHighlighted(n) /\ ConfirmedHighlighted(n) /\ DeathHighlighted(n)

\* the names that have both a feature and a row
Matched == FeatureNames(us) \cap RowStates(data)

----------------------------------------------------------------------------
(* Claims about hovering, checked under HoverSpec. *)

\* C1: from a state where nothing is highlighted in any view, a hover-enter
\* on a region that has a feature and a row, from the map, the confirmed
\* chart or the death chart, leaves that region highlighted in all three
\* views and no other region highlighted in any view.
C1_HoverEnterHighlightsAllViews ==
    [][\A n \in Matched :
          ( /\ \A m \in AllNames : ~HighlightedSomewhere(m)
            /\ (mouseover(n) \/ ConfirmedMouseover(n) \/ DeathMouseover(n)) )
          => ( /\ HighlightedEverywhere(n)
               /\ \A m \in AllNames \ {n} : ~HighlightedSomewhere(m) )'
      ]_vars

\* a death-chart hover on Texas shows in all three views, and only there
C1_Witness ==
    /\ lastEvent = Event("death mouseover", "Texas")
    /\ HighlightedEverywhere("Texas")
    /\ \A m \in AllNames \ {"Texas"} : ~HighlightedSomewhere(m)

\* C2: a hover-leave on region n from any of the three sources leaves n
\* with no highlight class in any of the three views, whichever source's
\* hover-enter applied the highlight.
C2_HoverLeaveClearsAllViews ==
    [][\A n \in AllNames :
          (mouseout(n) \/ ConfirmedMouseout(n) \/ DeathMouseout(n))
          => (~HighlightedSomewhere(n))'
      ]_vars

----------------------------------------------------------------------------
(* The claim about loading, checked under FairHoverSpec. *)

\* C10: no view is constructed before both loads have completed
\* successfully; after a failed load no view is ever constructed; and once
\* both loads have succeeded the three views are eventually constructed,
\* the map first.
C10_ViewsOnlyAfterBothLoads ==
    /\ [](views # <<>> => (us = Atlas /\ data = Rows /\ views[1] = "map"))
    /\ [](pc = "failed" => views = <<>>)
    /\ [][pc = "failed" => pc' = "failed"]_vars
    /\ ((us = Atlas /\ data = Rows) ~> (Range(views) = {"map", "confirmed", "death"}))

\* the dashboard is complete and in use
C10_Witness ==
    /\ pc = "ready"
    /\ views = <<"map", "confirmed", "death">>
    /\ lastEvent.type = "map mouseover"

----------------------------------------------------------------------------
(* Claims about the details chart, checked under DetailSpec, and about the  *)
(* selected region, checked under SelectSpec.                              *)

\* the details chart updateStateBarChart builds for the row of n
ChartOf(n, node) ==
    [node |-> node, state |-> n, bars |-> stateDetailsData(data[DataFind(data, n)])]

\* a click on a region that has a row
MatchedClick == \E n \in Matched : \E p \in Pointers : RegionClick(n, p)

\* a click on a region that has no row
MissedClick ==
    \E n \in FeatureNames(us) \ RowStates(data) : \E p \in Pointers : RegionClick(n, p)

\* C3: whatever region clicks, background clicks, hovers and zoom gestures
\* happen, there is no details chart before the first region click that
\* finds a row and exactly one in every state after it; every later region
\* click that finds a row removes the chart there is and creates one from
\* the row of the region clicked.
C3_OneDetailViewOnceSelected ==
    /\ [](Len(detail) <= 1)
    /\ [](~Listening => detail = <<>>)
    /\ [][Len(detail) = 1 => Len(detail') = 1]_vars
    /\ [][detail' # detail => MatchedClick]_vars
    /\ [][\A n \in Matched : \A p \in Pointers :
             RegionClick(n, p) =>
                /\ \E node \in {0, 1} : detail' = <<ChartOf(n, node)>>
                /\ detail # <<>> => detail'[1].node # detail[1].node
         ]_vars

\* the chart of California has been replaced by a new one for Texas, after
\* a hover on Texas and while a zoom gesture goes on
C3_Witness ==
    /\ lastEvent = Event("region click", "Texas")
    /\ detail = <<ChartOf("Texas", 1)>>
    /\ MapHighlighted("Texas")
    /\ zooming # 0

\* C4 as stated: after a background click no details chart exists and no
\* region is selected.
C4_BackgroundClickDestroysDetail ==
    [][BackgroundClick =>
          /\ detail' = <<>>
          /\ \A n \in DOMAIN fillTransition' : fillTransition'[n].target # "red"
      ]_vars

\* C4 as amended: a background click leaves the details chart as it was,
\* schedules the fill of every region back to the default, so that no
\* region stays selected, and schedules the zoom back to the identity.
C4_BackgroundClickKeepsDetail ==
    [][BackgroundClick =>
          /\ detail' = detail
          /\ \A n \in DOMAIN fillTransition' :
                /\ fillTransition'[n].phase = "scheduled"
                /\ fillTransition'[n].target = "null"
          /\ svgTransition'.phase = "scheduled"
          /\ svgTransition'.target = zoomIdentity
      ]_vars

\* a background click has been handled and the chart of Texas is still there
C4_Witness ==
    /\ lastEvent.type = "background click"
    /\ detail = <<ChartOf("Texas", 0)>>
    /\ svgTransition.target = zoomIdentity

\* the hover, click and zoom listeners run when their events come: the
\* handlers of a hover on the map and on both charts, of a click on a
\* region and on the background (unless the zoom behaviour keeps the click
\* that ends a drag from every listener) and of a wheel event are enabled
StillHandled ==
    /\ ENABLED mouseover("Texas")
    /\ ENABLED mouseout("Texas")
    /\ ENABLED ConfirmedMouseover("Texas")
    /\ ENABLED DeathMouseover("Texas")
    /\ noclick \/ ENABLED RegionClick("Texas", ViewCentre)
    /\ noclick \/ ENABLED BackgroundClick
    /\ ENABLED (\E f \in WheelFactors : Wheel(f, ViewCentre))

\* C5: a click on a region whose name matches no row leaves the details
\* chart as it was (none, or the same node with the same four bars) and
\* adds one console.error line, which nothing else does; and in every state
\* after such a click in which the run may go on, the hover, click and zoom
\* handlers still run.
C5_NoDataClickKeepsDetail ==
    /\ [][MissedClick => (detail' = detail /\ errors' = errors + 1)]_vars
    /\ [][errors' # errors => MissedClick]_vars
    /\ []((errors > 0 /\ seen < MaxSeen) => StillHandled)

\* Nevada, which has no row, was clicked while the chart of Texas was
\* shown, and a hover on Texas was handled after that
C5_Witness ==
    /\ lastEvent = Event("map mouseover", "Texas")
    /\ stateHighlight["Texas"]
    /\ errors = 1
    /\ detail = <<ChartOf("Texas", 0)>>
    /\ svgTransition.phase = "scheduled"
    /\ svgTransition.target = ClickTransform(PathBounds(us, "Nevada"))

\* the fill a path ends with once its pending transition has run
EffectiveFill(n) ==
    IF fillTransition[n].phase # "idle"
    THEN FillValue(fillTransition[n].target)
    ELSE fillStyle[n]

FillsSettled == \A n \in DOMAIN fillTransition : fillTransition[n].phase = "idle"

\* C9: once the pending fill transitions have run, at most one region has
\* the active fill; a click on region n makes n, and no other region, end
\* with the active fill: the click does not go on to the background
\* handler, which would clear it.
C9_AtMostOneActiveFill ==
    /\ [](FillsSettled => Cardinality({n \in DOMAIN fillStyle : fillStyle[n] = "red"}) <= 1)
    /\ [](FillsSettled /\ lastEvent.type = "region click" =>
             \A m \in DOMAIN fillStyle :
                 fillStyle[m] = IF m = lastEvent.name THEN "red" ELSE "none")
    /\ [][\A n \in FeatureNames(us) : \A p \in Pointers :
             RegionClick(n, p) =>
                \A m \in FeatureNames(us) :
                    EffectiveFill(m)' = IF m = n THEN "red" ELSE "none"
         ]_vars

\* a click moved the active fill to Texas
C9_Witness ==
    /\ lastEvent = Event("region click", "Texas")
    /\ FillsSettled
    /\ fillStyle["Texas"] = "red"
    /\ detail = <<ChartOf("Texas", 1)>>

----------------------------------------------------------------------------
(* Claims about the zoom transform. *)

\* the scale of t lies in the scale extent
InExtent(t) ==
    /\ RatLeq[Int2Rat(ScaleExtentMin), ScaleMin(t)]
    /\ RatLeq[ScaleMax(t), Int2Rat(ScaleExtentMax)]

\* C6, under FairResetSpec: after a background click, unless another click
\* or gesture follows, the transform ends equal to d3.zoomIdentity and no
\* region keeps a fill override.
C6_BackgroundClickRestoresIdentity ==
    (lastEvent.type = "background click")
        ~> ( \/ lastEvent.type # "background click"
             \/ ( /\ zoomTransform = zoomIdentity
                  /\ gAttr.transform = zoomIdentity
                  /\ \A n \in DOMAIN fillStyle : fillStyle[n] = "none" ) )

\* a region was selected, the background clicked before the zoom of the
\* selection had started, and the animation is over
C6_Witness ==
    /\ lastEvent.type = "background click"
    /\ seen = 2
    /\ detail # <<>>
    /\ svgTransition = NoTransition
    /\ FillsSettled
    /\ zoomTransform = zoomIdentity
    /\ \A n \in DOMAIN fillStyle : fillStyle[n] = "none"

\* a wheel event
Wheels == \E f \in WheelFactors : \E p \in Pointers : Wheel(f, p)

\* a finger moves
TouchMoves == \E finger \in Fingers : \E p \in TouchPoints : TouchMove(finger, p)

\* the gesture registered on the svg has two fingers
TwoFingers == zooming # 0 /\ gestures[zooming].touch1.on

\* the pointer moves with the button down
MouseMoves == \E p \in Pointers : MouseMove(p)

\* t has the scale of u
SameScale(t, u) ==
    \/ t = u
    \/ Exact(t) /\ Exact(u) /\ t.k = u.k
    \/ "translated" \in DOMAIN t /\ t.translated = u

\* the steps that write the transform: the zoom request of startup, the
\* frames of a zoom transition, a wheel event, a move of the mouse with
\* the button down and a move of a finger
WritesTransform ==
    Render \/ ZoomEnd \/ ZoomFrame \/ Wheels \/ MouseMoves \/ TouchMoves

\* C8 as stated, under ZoomSpec: in every state from startup on the scale
\* lies in [1, 8], and only the zoom handlers change the transform.
C8_ScaleAlwaysInExtent ==
    /\ [](Listening => InExtent(zoomTransform))
    /\ [][zoomTransform' # zoomTransform => WritesTransform]_vars

\* C8 as amended, under ZoomSpec: startup sets the scale to 0.8, below 1;
\* the scale is at most 8 in every state; a wheel event and a move of two
\* fingers leave it in [1, 8], a double click and a double tap ask for a
\* scale in [1, 8]; a move of the mouse with the button down, and of one
\* finger, keeps the scale; and only the zoom requests of the map (the one
\* of startup, the frames of a zoom transition) and the events of a zoom
\* gesture change the transform.
C8_ScaleAtMostEight ==
    /\ [](Listening => RatLeq[ScaleMax(zoomTransform), Int2Rat(ScaleExtentMax)])
    /\ [][Render => zoomTransform'.k = Rat[8, 10]]_vars
    /\ [][Wheels => InExtent(zoomTransform')]_vars
    /\ [][TwoFingers /\ TouchMoves => InExtent(zoomTransform')]_vars
    /\ [][DblClicks \/ (\E finger \in Fingers : TouchEnd(finger)) =>
             svgTransition' = svgTransition \/ InExtent(svgTransition'.target)]_vars
    /\ [][MouseMoves \/ (~TwoFingers /\ TouchMoves) =>
             SameScale(zoomTransform', zoomTransform)]_vars
    /\ [][zoomTransform' # zoomTransform => WritesTransform]_vars

\* a wheel gesture that goes on has taken the scale to the upper end of the
\* extent
C8_Witness ==
    /\ zooming # 0
    /\ gestures[zooming].wheel
    /\ Exact(zoomTransform)
    /\ zoomTransform.k = Int2Rat(ScaleExtentMax)

\* the centre of a bounding box
Centre(box) == <<Rat[box[1][1] + box[2][1], 2], Rat[box[1][2] + box[2][2], 2]>>

\* the transform t takes the centre of box to the centre of the viewport
Centres(t, box) == Apply(t, Centre(box)) = ViewCentre

\* box is at most nine tenths of the viewport wide and high
FitsAtScaleOne(box) ==
    /\ 10 * (box[2][1] - box[1][1]) <= 9 * width
    /\ 10 * (box[2][2] - box[1][2]) <= 9 * height

\* min(8, 0.9 / max((x1 - x0) / 960, (y1 - y0) / 600))
FitScale(box) ==
    RatMin[Int2Rat(8),
           RatDiv[Rat[9, 10],
                  RatMax[Rat[box[2][1] - box[1][1], 960], Rat[box[2][2] - box[1][2], 600]]]]

\* the transform the last region click asked the zoom behaviour for
ClickTarget == svgTransition.target

\* C7 as stated, under BoundsSpec: for every bounding box of the viewport
\* the transform a region click computes has a scale in [1, 8] and takes
\* the centre of the box to the centre of the viewport.
C7_ClickScaleInExtent ==
    lastEvent.type = "region click" =>
        /\ InExtent(ClickTarget)
        /\ Centres(ClickTarget, PathBounds(us, lastEvent.name))

\* C7 as amended, under BoundsSpec: the scale is min(8, 0.9 / max((x1 - x0)
\* / 960, (y1 - y0) / 600)), which is positive and at most 8, and at least
\* 1 exactly when the box is at most 864 wide and 540 high; the transform
\* takes the centre of the box to the centre of the viewport.
C7_ClickScaleAtMostEight ==
    lastEvent.type = "region click" =>
        LET box == PathBounds(us, lastEvent.name)
        IN  /\ svgTransition.phase = "scheduled"
            /\ ClickTarget.k = FitScale(box)
            /\ RatLt[Int2Rat(0), ClickTarget.k]
            /\ RatLeq[ClickTarget.k, Int2Rat(8)]
            /\ RatLeq[Int2Rat(1), ClickTarget.k] <=> FitsAtScaleOne(box)
            /\ Centres(ClickTarget, box)

\* a click asked for the zoom to a small box, at the capped scale
C7_Witness ==
    /\ lastEvent.type = "region click"
    /\ PathBounds(us, lastEvent.name) = << <<0, 0>>, <<width \div BoxGrid, height \div BoxGrid>> >>
    /\ svgTransition.phase = "scheduled"
    /\ svgTransition.target.k = Int2Rat(8)
    /\ Centres(svgTransition.target, PathBounds(us, lastEvent.name))

====
